---- MODULE Spec2Model ----
(***************************************************************************)
(* Model of app.py, the Streamlit library manager: two CSV files           *)
(* (library.csv, daily_log.csv), and per browser session the in-memory     *)
(* tables st.session_state.library_df / log_df, the admin flag, the        *)
(* pending log-form rows and the page chosen in the sidebar menu.          *)
(* Every button handler of the script is one action; a handler's trailing  *)
(* save_data call is part of the action.                                   *)
(*                                                                         *)
(*   library_df[s], log_df[s]   the session's tables: sequences of records *)
(*   admin_access[s]            st.session_state.admin_access              *)
(*   reading_log_entries[s]     the number of rows of the log form (a      *)
(*                              row's values are overwritten from its      *)
(*                              widgets on every run, so only the length   *)
(*                              of the list carries over)                  *)
(*   page[s]                    the value option_menu returns              *)
(*   banner[s]                  the st.success / st.error call of the      *)
(*                              session's latest interaction               *)
(*   libFile, logFile           the content of library.csv, daily_log.csv  *)
(*   log_saves                  the number of writes of daily_log.csv      *)
(*   today                      date.today(), as a day number              *)
(*                                                                         *)
(* The sessions start before either file exists, so each loads empty       *)
(* tables; a Status outside the select box's options is then never held,   *)
(* and the bookshelf's status box changes a row only when the user does.   *)
(***************************************************************************)
EXTENDS Integers, Sequences, FiniteSets, TLC

VARIABLES library_df, log_df, admin_access, reading_log_entries, page, banner,
          libFile, logFile, log_saves, today

vars == <<library_df, log_df, admin_access, reading_log_entries, page, banner,
          libFile, logFile, log_saves, today>>

----------------------------------------------------------------------------
(* Bounds of the exploration.                                              *)
MaxBooks == 2
MaxLog == 2
MaxRows == 2

(* Browser sessions; each has its own st.session_state.                    *)
Sessions == {1, 2}

(* The days date.today() takes during a run.                               *)
Days == {1, 2}

(* Values a user can type or pick in the forms.                            *)
PageCounts == {1, 2}
PagesReadInputs == {1}
MinutesInputs == {1}

ADMIN_PASSWORD == "23030127"
Passwords == {ADMIN_PASSWORD, "wrong"}

LIBRARY_COLUMNS == <<"Title", "Author", "Genre", "Pages", "Status">>
LOG_COLUMNS == <<"Date", "Book Title", "Pages Read", "Time Spent (min)">>

(* The options of the status select boxes.                                 *)
status_options == {"Not Started", "Reading", "Read"}

----------------------------------------------------------------------------
(* CSV conversion: DataFrame.to_csv(index=False) and pandas.read_csv.      *)

Digit == <<"0", "1", "2", "3", "4", "5", "6", "7", "8", "9">>

RECURSIVE NatToStr(_)
NatToStr(n) == IF n < 10 THEN Digit[n + 1]
               ELSE NatToStr(n \div 10) \o Digit[(n % 10) + 1]

(* str(date.today()) for the day numbered d of the run.                    *)
DateStr(d) == "2025-01-" \o (IF d < 10 THEN "0" ELSE "") \o NatToStr(d)

(* A file that does not exist, and the content to_csv writes.              *)
NoFile == [exists |-> FALSE, header |-> <<>>, rows |-> <<>>]

BookRow(b) == <<b.Title, b.Author, b.Genre, NatToStr(b.Pages), b.Status>>
LogRow(e) == <<e.Date, e.BookTitle, NatToStr(e.PagesRead), NatToStr(e.TimeSpent)>>

library_to_csv(df) ==
    [exists |-> TRUE, header |-> LIBRARY_COLUMNS,
     rows |-> [i \in 1..Len(df) |-> BookRow(df[i])]]

log_to_csv(df) ==
    [exists |-> TRUE, header |-> LOG_COLUMNS,
     rows |-> [i \in 1..Len(df) |-> LogRow(df[i])]]

(* Variant: the file opened in append mode, its old rows kept.             *)
save_library_Append(df, file) ==
    [exists |-> TRUE, header |-> LIBRARY_COLUMNS,
     rows |-> file.rows \o library_to_csv(df).rows]

(* save_data(df, file_path): the new content of the file at file_path,     *)
(* whose content before the call is `file`.                                *)
save_library(df, file) == library_to_csv(df)
save_log(df, file) == log_to_csv(df)

(* read_csv's default NA markers (those the input sets can produce).       *)
NA_VALUES == {"", "NA", "N/A", "NULL", "NaN", "None", "n/a", "nan", "null"}

(* A parsed cell: a string, an integer or NaN.                             *)
Str(x) == [kind |-> "str", s |-> x, n |-> 0]
Int_(k) == [kind |-> "int", s |-> "", n |-> k]
NaN == [kind |-> "nan", s |-> "", n |-> 0]

MaxParsed == 99
IsNumeral(f) == \E k \in 0..MaxParsed : NatToStr(k) = f
NumeralValue(f) == CHOOSE k \in 0..MaxParsed : NatToStr(k) = f

(* read_csv infers a column's type from all its cells: numbers when every  *)
(* cell that is not an NA marker is a numeral, strings otherwise.          *)
NumericColumn(file, j) ==
    /\ \E i \in 1..Len(file.rows) : IsNumeral(file.rows[i][j])
    /\ \A i \in 1..Len(file.rows) :
          file.rows[i][j] \in NA_VALUES \/ IsNumeral(file.rows[i][j])

ParseCell(file, i, j) ==
    LET f == file.rows[i][j]
    IN IF f \in NA_VALUES THEN NaN
       ELSE IF NumericColumn(file, j) THEN Int_(NumeralValue(f))
       ELSE Str(f)

(* load_data(file_path, columns): the table a new session would get.       *)
load_data(file) ==
    IF ~file.exists THEN <<>>
    ELSE [i \in 1..Len(file.rows) |->
            [j \in 1..Len(file.header) |-> ParseCell(file, i, j)]]

(* The in-memory tables in the same cell encoding, for comparison.         *)
BookCells(b) == <<Str(b.Title), Str(b.Author), Str(b.Genre), Int_(b.Pages), Str(b.Status)>>
LogCells(e) == <<Str(e.Date), Str(e.BookTitle), Int_(e.PagesRead), Int_(e.TimeSpent)>>
LibraryCells(df) == [i \in 1..Len(df) |-> BookCells(df[i])]
LogTableCells(df) == [i \in 1..Len(df) |-> LogCells(df[i])]

----------------------------------------------------------------------------
(* Helpers on tables.                                                      *)

(* library_df['Title'].unique()                                            *)
UniqueTitles(df) == {df[i].Title : i \in 1..Len(df)}

(* Variant: the last row dropped, whatever the index.                      *)
Drop_Last(df, index) == SubSeq(df, 1, Len(df) - 1)

(* df.drop(index).reset_index(drop=True)                                   *)
Drop(df, index) == SubSeq(df, 1, index - 1) \o SubSeq(df, index + 1, Len(df))

(* Variant: the row assigned to every index.                               *)
SetRow_Every(df, index, row) == [i \in 1..Len(df) |-> row]

(* df.loc[index] = row                                                     *)
SetRow(df, index, row) == [df EXCEPT ![index] = row]

(* Variant: a free text field, not the library's titles.                   *)
book_options_AnyText(df) == {"A", "NA", "Z"}

(* The options of a log-form row's "Book Title" select box.                *)
book_options(df) == UniqueTitles(df)

(* Variant: the Admin Panel offered to everyone.                           *)
options_AdminForAll(admin) == {"Dashboard", "Admin Panel", "Library", "Search"}

(* The sidebar menu's options for a session.                               *)
options(admin) == IF admin THEN {"Dashboard", "Admin Panel", "Library", "Search"}
                  ELSE {"Dashboard", "Library", "Search"}

(* option_menu(..., default_index=0): the page of a re-created menu. The   *)
(* menu is created anew when its options change (login, logout), and it    *)
(* returns one of its options.                                             *)
DefaultPage == "Dashboard"

(* One row of the log form: [{"book": "", "pages": 1, "time": 1}]          *)
InitialRows == 1

----------------------------------------------------------------------------
Init ==
    /\ libFile = NoFile
    /\ logFile = NoFile
    /\ library_df = [s \in Sessions |-> load_data(libFile)]
    /\ log_df = [s \in Sessions |-> load_data(logFile)]
    /\ admin_access = [s \in Sessions |-> FALSE]
    /\ reading_log_entries = [s \in Sessions |-> InitialRows]
    /\ page = [s \in Sessions |-> DefaultPage]
    /\ banner = [s \in Sessions |-> "none"]
    /\ log_saves = 0
    /\ today = 1

(* Admin Login: the Login button with the typed password.                  *)
Login(s, password) ==
    /\ ~admin_access[s]
    /\ IF password = ADMIN_PASSWORD
       THEN /\ admin_access' = [admin_access EXCEPT ![s] = TRUE]
            /\ page' = [page EXCEPT ![s] = DefaultPage]
            /\ banner' = [banner EXCEPT ![s] = "none"]
       ELSE /\ banner' = [banner EXCEPT ![s] = "incorrect_password"]
            /\ UNCHANGED <<admin_access, page>>
    /\ UNCHANGED <<library_df, log_df, reading_log_entries, libFile, logFile,
                   log_saves, today>>

(* Logout from Admin.                                                      *)
Logout(s) ==
    /\ admin_access[s]
    /\ admin_access' = [admin_access EXCEPT ![s] = FALSE]
    /\ page' = [page EXCEPT ![s] = DefaultPage]
    /\ banner' = [banner EXCEPT ![s] = "none"]
    /\ UNCHANGED <<library_df, log_df, reading_log_entries, libFile, logFile,
                   log_saves, today>>

(* Choosing a page in the sidebar menu.                                    *)
Navigate(s, p) ==
    /\ p \in options(admin_access[s])
    /\ p # page[s]
    /\ page' = [page EXCEPT ![s] = p]
    /\ banner' = [banner EXCEPT ![s] = "none"]
    /\ UNCHANGED <<library_df, log_df, admin_access, reading_log_entries,
                   libFile, logFile, log_saves, today>>

(* Dashboard, multi_log_form: "Add Another".                               *)
AddAnother(s) ==
    /\ page[s] = "Dashboard"
    /\ Len(library_df[s]) > 0
    /\ reading_log_entries[s] < MaxRows
    /\ reading_log_entries' = [reading_log_entries EXCEPT ![s] = @ + 1]
    /\ banner' = [banner EXCEPT ![s] = "none"]
    /\ UNCHANGED <<library_df, log_df, admin_access, page, libFile, logFile,
                   log_saves, today>>

(* Variant: the rows taken last to first.                                  *)
Stamped_Reversed(entries, day) ==
    [i \in 1..Len(entries) |->
        [Date |-> DateStr(day), BookTitle |-> entries[Len(entries) + 1 - i].book,
         PagesRead |-> entries[Len(entries) + 1 - i].pages,
         TimeSpent |-> entries[Len(entries) + 1 - i].time]]

(* The entries appended by one submission: one per form row, in row order. *)
Stamped(entries, day) ==
    [i \in 1..Len(entries) |->
        [Date |-> DateStr(day), BookTitle |-> entries[i].book,
         PagesRead |-> entries[i].pages, TimeSpent |-> entries[i].time]]

(* The number of save_data calls one submission makes.                     *)
SubmitSaves(entries) == 1

(* Dashboard, multi_log_form: "Submit All Log Entries".                    *)
SubmitLog(s, entries) ==
    /\ page[s] = "Dashboard"
    /\ Len(library_df[s]) > 0
    /\ Len(entries) = reading_log_entries[s]
    /\ \A i \in 1..Len(entries) : entries[i].book \in book_options(library_df[s])
    /\ Len(log_df[s]) + Len(entries) <= MaxLog
    /\ log_df' = [log_df EXCEPT ![s] = @ \o Stamped(entries, today)]
    /\ logFile' = save_log(log_df'[s], logFile)
    /\ log_saves' = log_saves + SubmitSaves(entries)
    /\ reading_log_entries' = [reading_log_entries EXCEPT ![s] = InitialRows]
    /\ banner' = [banner EXCEPT ![s] = "logged"]
    /\ UNCHANGED <<library_df, admin_access, page, libFile, today>>

(* The row written by "Save Changes".                                      *)
EditedRow(row, new_title, new_author, new_genre, new_pages, new_status) ==
    [Title |-> new_title, Author |-> new_author, Genre |-> new_genre,
     Pages |-> new_pages, Status |-> new_status]

(* Admin Panel, edit_form_{index}: "Save Changes".                         *)
SaveChanges(s, index, new_title, new_author, new_genre, new_pages, new_status) ==
    /\ page[s] = "Admin Panel"
    /\ index \in 1..Len(library_df[s])
    /\ library_df' = [library_df EXCEPT ![s] = SetRow(@, index,
            EditedRow(@[index], new_title, new_author, new_genre, new_pages, new_status))]
    /\ libFile' = save_library(library_df'[s], libFile)
    /\ banner' = [banner EXCEPT ![s] = "updated"]
    /\ UNCHANGED <<log_df, admin_access, reading_log_entries, page, logFile,
                   log_saves, today>>

(* Admin Panel: "Confirm Delete" of the row at index.                      *)
ConfirmDelete(s, index) ==
    /\ page[s] = "Admin Panel"
    /\ index \in 1..Len(library_df[s])
    /\ library_df' = [library_df EXCEPT ![s] = Drop(@, index)]
    /\ libFile' = save_library(library_df'[s], libFile)
    /\ banner' = [banner EXCEPT ![s] = "deleted"]
    /\ UNCHANGED <<log_df, admin_access, reading_log_entries, page, logFile,
                   log_saves, today>>

(* Variant: the genre not tested.                                          *)
FieldsFilled_NoGenre(title, author, genre, pages) ==
    title # "" /\ author # "" /\ pages # 0

(* `if title and author and pages and genre`                               *)
FieldsFilled(title, author, genre, pages) ==
    title # "" /\ author # "" /\ pages # 0 /\ genre # ""

(* Admin Panel, new_book_form: "Add Book to Library".                      *)
AddBook(s, title, author, genre, pages, status) ==
    /\ page[s] = "Admin Panel"
    /\ IF FieldsFilled(title, author, genre, pages)
       THEN /\ Len(library_df[s]) < MaxBooks
            /\ library_df' = [library_df EXCEPT ![s] = Append(@,
                    [Title |-> title, Author |-> author, Genre |-> genre,
                     Pages |-> pages, Status |-> status])]
            /\ libFile' = save_library(library_df'[s], libFile)
            /\ banner' = [banner EXCEPT ![s] = "added"]
       ELSE /\ banner' = [banner EXCEPT ![s] = "fill_all_fields"]
            /\ UNCHANGED <<library_df, libFile>>
    /\ UNCHANGED <<log_df, admin_access, reading_log_entries, page, logFile,
                   log_saves, today>>

(* Variant: the row rewritten on every render.                             *)
StatusChanged_Always(new_status, row) == TRUE

(* `if new_status != row['Status']`                                        *)
StatusChanged(new_status, row) == new_status # row.Status

(* The row after the bookshelf's status select box is changed.             *)
WithStatus(row, new_status) == [row EXCEPT !.Status = new_status]

(* Library page: the status select box of the card at index.               *)
SetStatus(s, index, new_status) ==
    /\ page[s] = "Library"
    /\ index \in 1..Len(library_df[s])
    /\ IF StatusChanged(new_status, library_df[s][index])
       THEN /\ library_df' = [library_df EXCEPT ![s] =
                    SetRow(@, index, WithStatus(@[index], new_status))]
            /\ libFile' = save_library(library_df'[s], libFile)
            /\ banner' = [banner EXCEPT ![s] = "none"]
       ELSE UNCHANGED <<library_df, libFile, banner>>
    /\ UNCHANGED <<log_df, admin_access, reading_log_entries, page, logFile,
                   log_saves, today>>

(* date.today() moves on.                                                  *)
NextDay ==
    /\ today + 1 \in Days
    /\ today' = today + 1
    /\ UNCHANGED <<library_df, log_df, admin_access, reading_log_entries, page,
                   banner, libFile, logFile, log_saves>>

----------------------------------------------------------------------------
(* The values of one log-form row, and the forms a session can submit.     *)
RowInputs(T) == [book : T, pages : PagesReadInputs, time : MinutesInputs]

FormInputs(T, n) == [1..n -> RowInputs(T)]

(* The values of the book forms (new_book_form, edit_form_{index}).        *)
BookForms(T, A, G, P, S) == [title : T, author : A, genre : G, pages : P, status : S]

Authenticate(s, PW) ==
    \/ \E password \in PW : Login(s, password)
    \/ Logout(s)
    \/ \E p \in options(TRUE) : Navigate(s, p)

LogReading(s) ==
    \/ AddAnother(s)
    \/ \E entries \in FormInputs(book_options(library_df[s]), reading_log_entries[s]) :
          SubmitLog(s, entries)

ManageBooks(s, AddForms, EditForms, StatusInputs) ==
    \/ \E index \in 1..Len(library_df[s]), f \in EditForms :
          SaveChanges(s, index, f.title, f.author, f.genre, f.pages, f.status)
    \/ \E index \in 1..Len(library_df[s]) : ConfirmDelete(s, index)
    \/ \E f \in AddForms : AddBook(s, f.title, f.author, f.genre, f.pages, f.status)
    \/ \E index \in 1..Len(library_df[s]), st \in StatusInputs : SetStatus(s, index, st)

(* One session, every handler; few book values.                            *)
Next ==
    \/ Authenticate(1, Passwords)
    \/ LogReading(1)
    \/ ManageBooks(1, BookForms({"", "A", "NA"}, {"X"}, {"G"}, {1}, {"Not Started"}),
                      BookForms({"A"}, {"X"}, {"G"}, {1}, {"Read"}),
                      {"Not Started"})
    \/ NextDay

Spec == Init /\ [][Next]_vars

(* One session, the library handlers; more book values.                    *)
NextLibrary ==
    \/ Authenticate(1, Passwords)
    \/ ManageBooks(1, BookForms({"", "A"}, {"", "X"}, {"", "G"}, PageCounts, status_options),
                      BookForms({"", "A"}, {"X"}, {"G"}, PageCounts, status_options),
                      status_options)

SpecLibrary == Init /\ [][NextLibrary]_vars

(* Two sessions on the same files.                                         *)
NextTwo ==
    \E s \in Sessions :
        \/ Authenticate(s, {ADMIN_PASSWORD})
        \/ ManageBooks(s, BookForms({"A", "NA"}, {"X"}, {"G"}, {1}, {"Not Started"}),
                          BookForms({"A"}, {"X"}, {"G"}, {1}, {"Read"}),
                          {"Not Started"})

SpecTwo == Init /\ [][NextTwo]_vars

----------------------------------------------------------------------------
(* Steps of the handlers, recognised from the two states of a step.        *)

IsPrefix(a, b) == Len(a) <= Len(b) /\ SubSeq(b, 1, Len(a)) = a

Valid(b) ==
    /\ b.Title # "" /\ b.Author # "" /\ b.Genre # ""
    /\ b.Pages > 0
    /\ b.Status \in {"Not Started", "Reading", "Read"}

(* "Save Changes" on the row at index, with the values the row ends with.  *)
UpdateStep(s, index) ==
    /\ index \in 1..Len(library_df'[s])
    /\ LET r == library_df'[s][index]
       IN SaveChanges(s, index, r.Title, r.Author, r.Genre, r.Pages, r.Status)

(* "Add Book to Library" with accepted values.                             *)
AddStep(s) ==
    /\ Len(library_df'[s]) > 0
    /\ LET r == library_df'[s][Len(library_df'[s])]
       IN AddBook(s, r.Title, r.Author, r.Genre, r.Pages, r.Status)

----------------------------------------------------------------------------
(* C1: an add whose Title, Author or Genre is empty shows the error and    *)
(* changes nothing: the in-memory library, its record count and the        *)
(* library file are what they were before the call.                        *)
C1_IncompleteAddChangesNothing ==
    [][\A s \in Sessions :
          page[s] = "Admin Panel" =>
            \A title \in {"", "A"}, author \in {"", "X"}, genre \in {"", "G"} :
              (title = "" \/ author = "" \/ genre = "") =>
                \A pages \in PageCounts, status \in {"Not Started", "Reading", "Read"} :
                  AddBook(s, title, author, genre, pages, status) =>
                    /\ banner'[s] = "fill_all_fields"
                    /\ library_df' = library_df
                    /\ Len(library_df'[s]) = Len(library_df[s])
                    /\ libFile' = libFile]_vars

(* An incomplete add was rejected in a library that holds a book.          *)
C1_Witness ==
    /\ banner[1] = "fill_all_fields"
    /\ Len(library_df[1]) > 0
    /\ libFile = library_to_csv(library_df[1])

(* C2: every mutating library operation of a session rewrites the file     *)
(* with exactly that session's table, whatever the file held (no merge,    *)
(* no version check), so the other session's change can be lost.           *)
C2_LastFullRewriteWins ==
    [][\A s \in Sessions :
          library_df'[s] # library_df[s] =>
            libFile' = library_to_csv(library_df'[s])]_vars

(* Session s was told its book was added, and the file holds only the      *)
(* other session's table, without that book.                               *)
C2_LostUpdate ==
    \E s \in Sessions : \E t \in Sessions \ {s} :
        /\ banner[s] = "added"
        /\ Len(library_df[t]) > 0
        /\ libFile = library_to_csv(library_df[t])
        /\ LET added == library_df[s][Len(library_df[s])]
           IN \A i \in 1..Len(libFile.rows) : libFile.rows[i] # BookRow(added)

(* C3: the log only grows at its end; a submission appends one entry per   *)
(* form row, in row order, stamped with today's date, and writes the log   *)
(* file once.                                                              *)
C3_LogAppendOnly ==
    [][\A s \in Sessions :
          /\ IsPrefix(log_df[s], log_df'[s])
          /\ \A entries \in FormInputs({"", "A", "NA"}, reading_log_entries[s]) :
                SubmitLog(s, entries) =>
                  /\ Len(log_df'[s]) = Len(log_df[s]) + reading_log_entries[s]
                  /\ \A i \in 1..reading_log_entries[s] :
                        log_df'[s][Len(log_df[s]) + i] =
                            [Date |-> DateStr(today), BookTitle |-> entries[i].book,
                             PagesRead |-> entries[i].pages,
                             TimeSpent |-> entries[i].time]
                  /\ log_saves' = log_saves + 1
                  /\ logFile' = log_to_csv(log_df'[s])]_vars

(* A submission of two rows with different titles, written once.           *)
C3_Witness ==
    /\ banner[1] = "logged"
    /\ Len(log_df[1]) = 2
    /\ log_df[1][1].BookTitle # log_df[1][2].BookTitle
    /\ log_saves = 1

(* C4: add, update and delete happen only while admin_access is true;      *)
(* admin_access turns true only by a login with ADMIN_PASSWORD; a wrong    *)
(* password leaves it false and changes no store; logout sets it false;    *)
(* the Library and Dashboard pages stay in the menu without admin access.  *)
C4_AdminGate ==
    /\ [](\A s \in Sessions :
            /\ {"Dashboard", "Library"} \subseteq options(admin_access[s])
            /\ page[s] \in options(admin_access[s]))
    /\ [][\A s \in Sessions :
            /\ ( \/ AddStep(s)
                 \/ \E index \in 1..Len(library_df[s]) :
                        UpdateStep(s, index) \/ ConfirmDelete(s, index) )
                 => admin_access[s]
            /\ (~admin_access[s] /\ admin_access'[s]) => Login(s, ADMIN_PASSWORD)
            /\ \A password \in Passwords \ {ADMIN_PASSWORD} :
                  Login(s, password) =>
                    /\ ~admin_access'[s]
                    /\ UNCHANGED <<library_df, log_df, libFile, logFile>>
            /\ Logout(s) => ~admin_access'[s]]_vars

(* A log submission made without admin access, on a library an admin had   *)
(* filled before logging out.                                              *)
C4_Witness ==
    /\ ~admin_access[1]
    /\ banner[1] = "logged"
    /\ Len(library_df[1]) > 0

C6_OnlyTheIndexedRecord ==
    [][\A s \in Sessions : \A index \in 1..Len(library_df[s]) :
          LET old == library_df[s]
              new == library_df'[s]
              Frame == /\ Len(new) = Len(old)
                       /\ \A j \in 1..Len(old) : j # index => new[j] = old[j]
                       /\ log_df' = log_df
                       /\ logFile' = logFile
                       /\ admin_access' = admin_access
          IN /\ UpdateStep(s, index) => Frame
             /\ \A st \in {"Not Started", "Reading", "Read"} :
                   SetStatus(s, index, st) =>
                     /\ Frame
                     /\ new[index] = [old[index] EXCEPT !.Status = st]]_vars

(* An update made with another record in the library and a log written.    *)
C6_Witness ==
    /\ banner[1] = "updated"
    /\ Len(library_df[1]) >= 2
    /\ Len(log_df[1]) >= 1

(* C7: in one session the files, once written, load back to the in-memory  *)
(* tables: same records, same order, same field values.                    *)
C7_FileLoadsBackToMemory ==
    /\ libFile.exists => load_data(libFile) = LibraryCells(library_df[1])
    /\ logFile.exists => load_data(logFile) = LogTableCells(log_df[1])

(* C8: choosing for a book the status it already has leaves the library    *)
(* in memory and the library file as they are.                             *)
C8_SameStatusChangesNothing ==
    [][\A s \in Sessions : \A index \in 1..Len(library_df[s]) :
          SetStatus(s, index, library_df[s][index].Status) =>
            /\ library_df' = library_df
            /\ libFile' = libFile]_vars

(* A bookshelf showing a book while the file holds another session's       *)
(* table.                                                                  *)
C8_Witness ==
    \E s \in Sessions :
        /\ page[s] = "Library"
        /\ Len(library_df[s]) > 0
        /\ libFile # library_to_csv(library_df[s])

(* C9: every book record has a non-empty Title, Author and Genre,          *)
(* Pages > 0 and a Status among Not Started, Reading and Read.             *)
C9_EveryRecordValid ==
    \A s \in Sessions : \A i \in 1..Len(library_df[s]) : Valid(library_df[s][i])

(* C10: an entry's Book Title is a title of the library when the entry is  *)
(* appended, which needs a non-empty library; changes of the library       *)
(* leave the log as it is.                                                 *)
C10_LogTitlesFromLibrary ==
    [][\A s \in Sessions :
          /\ log_df'[s] # log_df[s] =>
                /\ Len(library_df[s]) > 0
                /\ \A i \in (Len(log_df[s]) + 1)..Len(log_df'[s]) :
                      \E j \in 1..Len(library_df[s]) :
                          library_df[s][j].Title = log_df'[s][i].BookTitle
          /\ library_df'[s] # library_df[s] =>
                /\ log_df' = log_df
                /\ logFile' = logFile]_vars

(* A log entry whose title is no longer in the library.                    *)
C10_Orphan ==
    \E i \in 1..Len(log_df[1]) :
        \A j \in 1..Len(library_df[1]) :
            library_df[1][j].Title # log_df[1][i].BookTitle

====
